---------------------------- MODULE Spec2Model ----------------------------
(***************************************************************************)
(* Model of the outdoor PM2.5 pipeline of streamlit_app.py:                *)
(*   fetch_owid_pm25 -> load_data (prepare_owid_df) -> remove_future_dates *)
(* (Spec, SpecLive), of remove_future_dates as a function of an arbitrary  *)
(* table (SpecFilter), and of prepare_owid_df followed by                  *)
(* remove_future_dates as a function of an arbitrary raw table, run more   *)
(* than once (SpecPrepare); of the script run again and again under       *)
(* st.cache_data (SpecRerun); and of the alert and risk tool tabs          *)
(* (SpecTools).                                                            *)
(*                                                                         *)
(* A table (pandas DataFrame) is a record                                  *)
(*   [cols |-> <<names>>, dtypes |-> <<dtype names>>, rows |-> <<rows>>]   *)
(* with every row a sequence of cells aligned with cols.  A cell is a      *)
(* record [t, s, n, d]: t = "str" (text s), "num" (the number n + d/10),   *)
(* "nan" (NaN / None / <NA> / NaT), "ts" (timezone-naive timestamp, n =    *)
(* wall-clock hour) or "tstz" (timezone-aware timestamp, n = UTC hour).    *)
(* Hours count from 2023-12-30 00:00.                                      *)
(***************************************************************************)
EXTENDS Integers, Sequences, FiniteSets, TLC

VARIABLES
  pc,        \* position of the script / of the call under study
  registry,  \* the pycountry registry installed
  attempt,   \* fetch_owid_pm25: the loop variable
  last_exc,  \* fetch_owid_pm25: last_exc
  slept,     \* fetch_owid_pm25: the time.sleep delays so far, in seconds
  raw,       \* what fetch_owid_pm25 returned
  prep,      \* load_data: how its call of prepare_owid_df ended
  result,    \* what load_data returned (or raised)
  fin,       \* remove_future_dates: the table passed in
  fcol,      \* remove_future_dates: date_col
  fnow,      \* remove_future_dates: the clock reading (UTC hour) of now_seoul()
  fres,      \* remove_future_dates: [ret |-> returned table, arg |-> the caller's table after the call]
  runs,      \* the runs of prepare_owid_df + remove_future_dates made so far on `raw`
  cache,     \* st.cache_data: the entries of load_data and fetch_owid_pm25, and the age of the latter
  tool       \* the tool tab run last: its widget values and what it showed

vars == <<pc, registry, attempt, last_exc, slept, raw, prep, result, fin, fcol, fnow, fres, runs, cache, tool>>

(***************************************************************************)
(* Bounds of the model.                                                    *)
(***************************************************************************)
MaxRows == 2

(***************************************************************************)
(* Strings: str.lower(), the `in` substring test.                          *)
(***************************************************************************)
UpperLetters == "ABCDEFGHIJKLMNOPQRSTUVWXYZ"
LowerLetters == "abcdefghijklmnopqrstuvwxyz"

Ch(s, i) == SubSeq(s, i, i)

UpperSet == {Ch(UpperLetters, i) : i \in 1..26}

LowerOf == [c \in UpperSet |-> Ch(LowerLetters, CHOOSE i \in 1..26 : Ch(UpperLetters, i) = c)]

LowerChar(c) == IF c \in UpperSet THEN LowerOf[c] ELSE c

RECURSIVE lower(_)
lower(s) == IF Len(s) = 0 THEN "" ELSE LowerChar(Ch(s, 1)) \o lower(SubSeq(s, 2, Len(s)))

Contains(sub, s) ==
  \E i \in 1..(Len(s) - Len(sub) + 1) : SubSeq(s, i, i + Len(sub) - 1) = sub

IsUpperLetter(c) == c \in UpperSet

IsDigit(c) == c \in {"0", "1", "2", "3", "4", "5", "6", "7", "8", "9"}

DigitVal(c) == CHOOSE v \in 0..9 : Ch("0123456789", v + 1) = c

AllDigits(s) == Len(s) > 0 /\ \A i \in 1..Len(s) : IsDigit(Ch(s, i))

RECURSIVE DigitsVal(_)
DigitsVal(s) ==
  IF Len(s) = 0 THEN 0
  ELSE 10 * DigitsVal(SubSeq(s, 1, Len(s) - 1)) + DigitVal(Ch(s, Len(s)))

(***************************************************************************)
(* Cells.                                                                  *)
(***************************************************************************)
Str(s) == [t |-> "str", s |-> s, n |-> 0, d |-> 0]
Num(n) == [t |-> "num", s |-> "", n |-> n, d |-> 0]
Flt(n, d) == [t |-> "num", s |-> "", n |-> n, d |-> d]
Null == [t |-> "nan", s |-> "", n |-> 0, d |-> 0]
Ts(h) == [t |-> "ts", s |-> "", n |-> h, d |-> 0]
TsTz(h) == [t |-> "tstz", s |-> "", n |-> h, d |-> 0]

isna(c) == c.t = "nan"

\* The comparison of lines 131-132 the other way round (>=).
NumLeq_Flipped(c, y) == c.t = "num" /\ c.n >= y

\* c <= y for a number cell and an integer y; a null compares False.
NumLeq(c, y) == c.t = "num" /\ (c.n < y \/ (c.n = y /\ c.d = 0))

(***************************************************************************)
(* Tables.                                                                 *)
(***************************************************************************)
Table(cols, dtypes, rows) == [cols |-> cols, dtypes |-> dtypes, rows |-> rows]

HasCol(df, name) == \E i \in 1..Len(df.cols) : df.cols[i] = name

ColIndex(df, name) == CHOOSE i \in 1..Len(df.cols) : df.cols[i] = name

Cell(df, r, name) == df.rows[r][ColIndex(df, name)]

Dtype(df, name) == df.dtypes[ColIndex(df, name)]

\* The sequence <<f[1], ..., f[n]>>.
RECURSIVE AsTuple(_, _)
AsTuple(f, n) == IF n = 0 THEN <<>> ELSE Append(AsTuple(f, n - 1), f[n])

\* df[name] = values (one cell per row): overwrites the column when it
\* exists, appends it as the last column otherwise.
SetCol(df, name, dtype, values) ==
  IF HasCol(df, name)
  THEN LET k == ColIndex(df, name) IN
       [cols |-> df.cols,
        dtypes |-> [df.dtypes EXCEPT ![k] = dtype],
        rows |-> AsTuple([r \in 1..Len(df.rows) |-> [df.rows[r] EXCEPT ![k] = values[r]]],
                         Len(df.rows))]
  ELSE [cols |-> Append(df.cols, name),
        dtypes |-> Append(df.dtypes, dtype),
        rows |-> AsTuple([r \in 1..Len(df.rows) |-> Append(df.rows[r], values[r])],
                         Len(df.rows))]

\* The rows i.. of `rows` whose keep[i] is true, in order.
RECURSIVE SelectRows(_, _, _)
SelectRows(rows, keep, i) ==
  IF i > Len(rows) THEN <<>>
  ELSE (IF keep[i] THEN <<rows[i]>> ELSE <<>>) \o SelectRows(rows, keep, i + 1)

\* Boolean indexing that also drops a row equal to an earlier one.
Filter_Dedup(df, keep) ==
  [df EXCEPT !.rows =
     SelectRows(df.rows,
                [i \in 1..Len(df.rows) |->
                   keep[i] /\ \A k \in 1..(i - 1) : df.rows[k] # df.rows[i]], 1)]

\* df[mask]: boolean indexing, order kept.
Filter(df, keep) == [df EXCEPT !.rows = SelectRows(df.rows, keep, 1)]

(***************************************************************************)
(* Time.  now_seoul() reads the clock in Asia/Seoul (UTC+9); normalize()   *)
(* floors it to local midnight.                                            *)
(***************************************************************************)
SeoulOffset == 9

\* First local hour of 2024 (2023-12-30 and 2023-12-31 come before it).
NewYearHour == 2 * 24

YearOfLocalHour(h) == IF h < NewYearHour THEN 2023 ELSE 2024

\* The clock read without the Asia/Seoul zone.
now_utc(utc) == utc

\* Lines 121-122: the Seoul wall-clock hour at the UTC hour utc.
now_seoul(utc) == utc + SeoulOffset

normalize(local) == (local \div 24) * 24

\* The UTC instant of a Seoul wall-clock hour.
SeoulToUtc(local) == local - SeoulOffset

\* pd.to_datetime on "YYYY-MM-DD" text, within the calendar window.
ParseDate(s) ==
  IF /\ Len(s) = 10
     /\ Ch(s, 5) = "-" /\ Ch(s, 8) = "-"
     /\ AllDigits(SubSeq(s, 1, 4)) /\ AllDigits(SubSeq(s, 6, 7)) /\ AllDigits(SubSeq(s, 9, 10))
  THEN LET y == DigitsVal(SubSeq(s, 1, 4))
           m == DigitsVal(SubSeq(s, 6, 7))
           d == DigitsVal(SubSeq(s, 9, 10))
       IN  IF y = 2023 /\ m = 12 /\ d \in 30..31 THEN Ts((d - 30) * 24)
           ELSE IF y = 2024 /\ m = 1 /\ d \in 1..3 THEN Ts((d + 1) * 24)
           ELSE Null
  ELSE Null

to_datetime_cell(c) ==
  CASE c.t \in {"ts", "tstz"} -> c
    [] c.t = "str" -> ParseDate(c.s)
    [] OTHER -> Null

(***************************************************************************)
(* remove_future_dates                                                     *)
(***************************************************************************)
is_integer_dtype(dt) == dt \in {"int64", "Int64"}
is_float_dtype(dt) == dt = "float64"

\* Series <= today for a datetime column and the timezone-aware `today`:
\* pandas raises TypeError when the column is timezone-naive.
CompareRaises(dt) == dt = "datetime64[ns]"

\* An absent column answered with an empty table.
RfdAbsent_Emptied(df) == [ret |-> Filter(df, [r \in 1..Len(df.rows) |-> FALSE]), arg |-> df]

\* Lines 128-129: the column is absent.
RfdAbsent(df) == [ret |-> df, arg |-> df]

\* Lines 130-132: a numeric column holds years.
RfdYears(df, date_col, today) ==
  [ret |-> Filter(df, [r \in 1..Len(df.rows) |->
                         NumLeq(Cell(df, r, date_col), YearOfLocalHour(today))]),
   arg |-> df]

\* Lines 133-138: any other column is parsed as dates.  The assignment of
\* line 134 writes into the caller's table; when the comparison of line 136
\* raises, `except: pass` leaves df as line 135 left it.
RfdDates(df, date_col, today) ==
  LET parsed == [r \in 1..Len(df.rows) |-> to_datetime_cell(Cell(df, r, date_col))]
      newdt == IF Dtype(df, date_col) \in {"datetime64[ns]", "datetime64[ns, tz]"}
               THEN Dtype(df, date_col)
               ELSE IF \E r \in 1..Len(df.rows) : parsed[r].t = "tstz"
               THEN "datetime64[ns, tz]" ELSE "datetime64[ns]"
      df1 == SetCol(df, date_col, newdt, parsed)
      df2 == Filter(df1, [r \in 1..Len(df1.rows) |-> ~isna(Cell(df1, r, date_col))])
  IN  IF CompareRaises(newdt)
      THEN [ret |-> df2, arg |-> df1]
      ELSE [ret |-> Filter(df2, [r \in 1..Len(df2.rows) |->
                                   Cell(df2, r, date_col).n <= SeoulToUtc(today)]),
            arg |-> df1]

\* today taken from the server's own (UTC) clock.
remove_future_dates_UtcToday(df, date_col, utc) ==
  LET today == normalize(utc) IN
  IF ~HasCol(df, date_col) THEN RfdAbsent(df)
  ELSE IF is_integer_dtype(Dtype(df, date_col)) \/ is_float_dtype(Dtype(df, date_col))
  THEN RfdYears(df, date_col, today)
  ELSE RfdDates(df, date_col, today)

\* Lines 124-139.
remove_future_dates(df, date_col, utc) ==
  LET today == normalize(now_seoul(utc)) IN
  IF ~HasCol(df, date_col) THEN RfdAbsent(df)
  ELSE IF is_integer_dtype(Dtype(df, date_col)) \/ is_float_dtype(Dtype(df, date_col))
  THEN RfdYears(df, date_col, today)
  ELSE RfdDates(df, date_col, today)

(***************************************************************************)
(* Number <-> text conversions: pd.to_numeric(errors="coerce") and         *)
(* astype(str).                                                            *)
(***************************************************************************)
\* Text of the form [-]digits[.digit]; anything else fails to parse.
ParseNum(s) ==
  LET neg == Len(s) > 0 /\ Ch(s, 1) = "-"
      body == IF neg THEN SubSeq(s, 2, Len(s)) ELSE s
      dot == IF \E i \in 1..Len(body) : Ch(body, i) = "."
             THEN CHOOSE i \in 1..Len(body) : Ch(body, i) = "." ELSE 0
      ip == IF dot = 0 THEN body ELSE SubSeq(body, 1, dot - 1)
      fp == IF dot = 0 THEN "0" ELSE SubSeq(body, dot + 1, Len(body))
  IN  IF AllDigits(ip) /\ Len(fp) = 1 /\ AllDigits(fp) /\ (neg => fp = "0")
      THEN Flt(IF neg THEN 0 - DigitsVal(ip) ELSE DigitsVal(ip), DigitsVal(fp))
      ELSE Null

\* What cannot be parsed counted as 0.
to_numeric_cell_ZeroOnError(c) ==
  CASE c.t = "num" -> c
    [] c.t = "str" -> IF ParseNum(c.s) = Null THEN Num(0) ELSE ParseNum(c.s)
    [] OTHER -> Num(0)

\* pd.to_numeric(errors="coerce") of one cell.
to_numeric_cell(c) ==
  CASE c.t = "num" -> c
    [] c.t = "str" -> ParseNum(c.s)
    [] OTHER -> Null

RECURSIVE NatStr(_)
NatStr(n) ==
  IF n < 10 THEN Ch("0123456789", n + 1)
  ELSE NatStr(n \div 10) \o Ch("0123456789", (n % 10) + 1)

IntStr(n) == IF n < 0 THEN "-" \o NatStr(0 - n) ELSE NatStr(n)

\* astype(str) of one cell of a column of the given dtype.
astype_str_cell(c, dtype) ==
  CASE c.t = "str" -> c
    [] c.t = "num" -> Str(IF dtype \in {"int64", "Int64"} /\ c.d = 0
                          THEN IntStr(c.n)
                          ELSE IntStr(c.n) \o "." \o NatStr(c.d))
    [] OTHER -> Str("nan")

\* The dtype pd.read_csv infers for a column.
InferDtype(cells) ==
  IF cells = {} THEN "object"
  ELSE IF \A c \in cells : c.t = "num" /\ c.d = 0 THEN "int64"
  ELSE IF \A c \in cells : c.t \in {"num", "nan"} THEN "float64"
  ELSE "object"

\* The table pd.read_csv builds from a header and its rows.
read_csv(cols, rows) ==
  Table(cols,
        AsTuple([k \in 1..Len(cols) |-> InferDtype({rows[r][k] : r \in 1..Len(rows)})],
                Len(cols)),
        rows)

(***************************************************************************)
(* Country name -> ISO3: the static table, the registry (pycountry) and    *)
(* the merged mapping of get_country_iso_mapping.                          *)
(***************************************************************************)
common_mappings ==
  <<
    <<"South Korea", "KOR">>, <<"Korea", "KOR">>, <<"United States", "USA">>,
    <<"United Kingdom", "GBR">>, <<"China", "CHN">>, <<"India", "IND">>,
    <<"Japan", "JPN">>, <<"Germany", "DEU">>, <<"France", "FRA">>,
    <<"Italy", "ITA">>, <<"Spain", "ESP">>, <<"Brazil", "BRA">>,
    <<"Russia", "RUS">>, <<"Australia", "AUS">>, <<"Canada", "CAN">>,
    <<"Mexico", "MEX">>, <<"Indonesia", "IDN">>, <<"Turkey", "TUR">>,
    <<"Saudi Arabia", "SAU">>, <<"Argentina", "ARG">>,
    <<"South Africa", "ZAF">>, <<"Thailand", "THA">>, <<"Malaysia", "MYS">>,
    <<"Singapore", "SGP">>, <<"Philippines", "PHL">>, <<"Vietnam", "VNM">>,
    <<"Bangladesh", "BGD">>, <<"Pakistan", "PAK">>, <<"Nigeria", "NGA">>,
    <<"Egypt", "EGY">>, <<"Iran", "IRN">>, <<"Iraq", "IRQ">>,
    <<"Israel", "ISR">>, <<"United Arab Emirates", "ARE">>,
    <<"Norway", "NOR">>, <<"Sweden", "SWE">>, <<"Denmark", "DNK">>,
    <<"Finland", "FIN">>, <<"Iceland", "ISL">>, <<"Netherlands", "NLD">>,
    <<"Belgium", "BEL">>, <<"Switzerland", "CHE">>, <<"Austria", "AUT">>,
    <<"Portugal", "PRT">>, <<"Greece", "GRC">>, <<"Poland", "POL">>,
    <<"Czech Republic", "CZE">>, <<"Hungary", "HUN">>, <<"Romania", "ROU">>,
    <<"Bulgaria", "BGR">>, <<"Croatia", "HRV">>, <<"Serbia", "SRB">>,
    <<"Ukraine", "UKR">>, <<"Belarus", "BLR">>, <<"Lithuania", "LTU">>,
    <<"Latvia", "LVA">>, <<"Estonia", "EST">>, <<"Ireland", "IRL">>,
    <<"New Zealand", "NZL">>, <<"Chile", "CHL">>, <<"Peru", "PER">>,
    <<"Colombia", "COL">>, <<"Venezuela", "VEN">>, <<"Ecuador", "ECU">>,
    <<"Bolivia", "BOL">>, <<"Paraguay", "PRY">>, <<"Uruguay", "URY">>,
    <<"Kenya", "KEN">>, <<"Ethiopia", "ETH">>, <<"Ghana", "GHA">>,
    <<"Morocco", "MAR">>, <<"Algeria", "DZA">>, <<"Tunisia", "TUN">>,
    <<"Libya", "LBY">>, <<"Sudan", "SDN">>, <<"Kazakhstan", "KAZ">>,
    <<"Uzbekistan", "UZB">>, <<"Afghanistan", "AFG">>, <<"Mongolia", "MNG">>,
    <<"Nepal", "NPL">>, <<"Sri Lanka", "LKA">>, <<"Myanmar", "MMR">>,
    <<"Cambodia", "KHM">>, <<"Laos", "LAO">>
  >>

\* One registry record: name, official_name ("" when the record has none),
\* common_name ("" when none), alpha_2, alpha_3.
Country(name, official, common, a2, a3) ==
  [name |-> name, official_name |-> official, common_name |-> common,
   alpha_2 |-> a2, alpha_3 |-> a3]

\* The registry is data of the pycountry package; the program reads
\* whichever version is installed.  Two versions: the current ISO 3166-1
\* list, and one that still carries Romania's pre-2002 code ROM.
RecordsCurrent ==
  << Country("China", "People's Republic of China", "", "CN", "CHN"),
     Country("Korea, Republic of", "", "South Korea", "KR", "KOR"),
     Country("Romania", "", "", "RO", "ROU"),
     Country("Viet Nam", "Socialist Republic of Viet Nam", "Vietnam", "VN", "VNM") >>

RecordsOld ==
  << Country("China", "People's Republic of China", "", "CN", "CHN"),
     Country("Korea, Republic of", "", "South Korea", "KR", "KOR"),
     Country("Romania", "", "", "RO", "ROM"),
     Country("Viet Nam", "Socialist Republic of Viet Nam", "Vietnam", "VN", "VNM") >>

\* The keys of the lookup index, lower-cased when the database is loaded:
\* field by field (alpha_2, alpha_3, name, official_name, common_name), each
\* in record order.
IndexOf(recs) ==
  LET Keys(F(_)) ==
        AsTuple([i \in 1..Len(recs) |-> <<lower(F(recs[i])), recs[i].alpha_3>>], Len(recs))
  IN  Keys(LAMBDA c : c.alpha_2) \o Keys(LAMBDA c : c.alpha_3) \o Keys(LAMBDA c : c.name)
        \o Keys(LAMBDA c : c.official_name) \o Keys(LAMBDA c : c.common_name)

Database(recs) == [records |-> recs, index |-> IndexOf(recs)]

RegistryCurrent == Database(RecordsCurrent)
RegistryOld == Database(RecordsOld)

Registries == {RegistryCurrent, RegistryOld}

hasattr_official_name(c) == c.official_name # ""

RECURSIVE RegistryPairs(_)
RegistryPairs(reg) ==
  IF Len(reg) = 0 THEN <<>>
  ELSE <<<<reg[1].name, reg[1].alpha_3>>>>
       \o (IF hasattr_official_name(reg[1])
           THEN <<<<reg[1].official_name, reg[1].alpha_3>>>> ELSE <<>>)
       \o RegistryPairs(Tail(reg))

\* The dict as the sequence of its assignments: mapping.update(common_mappings)
\* first, then one assignment per registry name.
get_country_iso_mapping(reg) == common_mappings \o RegistryPairs(reg.records)

\* dict lookup: the last assignment to the key wins; Null when absent.
DictHas(pairs, key) == \E i \in 1..Len(pairs) : pairs[i][1] = key

DictGet(pairs, key) ==
  pairs[CHOOSE i \in 1..Len(pairs) :
          /\ pairs[i][1] = key
          /\ \A j \in (i + 1)..Len(pairs) : pairs[j][1] # key][2]

\* Series.map(iso_mapping) on one country cell.
map_cell(mapping, c) ==
  IF c.t = "str" /\ DictHas(mapping, c.s) THEN Str(DictGet(mapping, c.s)) ELSE Null

\* pycountry.countries.lookup: the first index entry whose key equals the
\* lower-cased name (a field a record lacks is not indexed: its key "" here
\* matches nothing).
LookupHit(reg, low) == {i \in 1..Len(reg.index) : reg.index[i][1] = low /\ low # ""}

\* A failed lookup answered with a placeholder code.
name_to_iso_Placeholder(reg, c) ==
  IF c.t = "str" /\ LookupHit(reg, lower(c.s)) # {}
  THEN LET hits == LookupHit(reg, lower(c.s))
       IN  Str(reg.index[CHOOSE i \in hits : \A j \in hits : i <= j][2])
  ELSE Str("UNK")

\* name_to_iso: None when the lookup raises.
name_to_iso(reg, c) ==
  IF c.t = "str" /\ LookupHit(reg, lower(c.s)) # {}
  THEN LET hits == LookupHit(reg, lower(c.s))
       IN  Str(reg.index[CHOOSE i \in hits : \A j \in hits : i <= j][2])
  ELSE Null

(***************************************************************************)
(* prepare_owid_df                                                         *)
(***************************************************************************)
IsPollutantName(c) ==
  LET low == lower(c) IN
  Contains("pm2", low) \/ Contains("pm 2", low) \/ Contains("pm25", low)
    \/ Contains("average exposure", low)

IsGenericName(c) == lower(c) \in {"value", "avg", "mean"}

\* One pass that takes the first column matching either test.
find_value_column_SinglePass(cols) ==
  IF \E i \in 1..Len(cols) : IsPollutantName(cols[i]) \/ IsGenericName(cols[i])
  THEN cols[CHOOSE i \in 1..Len(cols) :
              /\ IsPollutantName(cols[i]) \/ IsGenericName(cols[i])
              /\ \A j \in 1..(i - 1) : ~(IsPollutantName(cols[j]) \/ IsGenericName(cols[j]))]
  ELSE ""

\* A search that settles for the last column where lines 268-276 return None.
find_value_column_LastColumn(cols) ==
  IF \E i \in 1..Len(cols) : IsPollutantName(cols[i])
  THEN cols[CHOOSE i \in 1..Len(cols) :
              IsPollutantName(cols[i]) /\ \A j \in 1..(i - 1) : ~IsPollutantName(cols[j])]
  ELSE IF \E i \in 1..Len(cols) : IsGenericName(cols[i])
  THEN cols[CHOOSE i \in 1..Len(cols) :
              IsGenericName(cols[i]) /\ \A j \in 1..(i - 1) : ~IsGenericName(cols[j])]
  ELSE cols[Len(cols)]

\* Lines 268-276; "" stands for None.
find_value_column(cols) ==
  IF \E i \in 1..Len(cols) : IsPollutantName(cols[i])
  THEN cols[CHOOSE i \in 1..Len(cols) :
              IsPollutantName(cols[i]) /\ \A j \in 1..(i - 1) : ~IsPollutantName(cols[j])]
  ELSE IF \E i \in 1..Len(cols) : IsGenericName(cols[i])
  THEN cols[CHOOSE i \in 1..Len(cols) :
              IsGenericName(cols[i]) /\ \A j \in 1..(i - 1) : ~IsGenericName(cols[j])]
  ELSE ""

exclude_entities ==
  {"World", "High-income countries", "Upper-middle-income countries",
   "Lower-middle-income countries", "Low-income countries", "Europe",
   "Asia", "Africa", "North America", "South America", "Oceania"}

EmptyTable == Table(<<>>, <<>>, <<>>)

Raise(e) == [ok |-> FALSE, exc |-> e, df |-> EmptyTable]
Ok(df) == [ok |-> TRUE, exc |-> "", df |-> df]

NRows(df) == Len(df.rows)

ColumnAt(df, k) == [r \in 1..NRows(df) |-> df.rows[r][k]]

Column(df, name) == ColumnAt(df, ColIndex(df, name))

\* The country column with the lower-case name tried first.
WithCountry_LowerFirst(df) ==
  IF HasCol(df, "entity") THEN SetCol(df, "country", Dtype(df, "entity"), Column(df, "entity"))
  ELSE IF HasCol(df, "Entity") THEN SetCol(df, "country", Dtype(df, "Entity"), Column(df, "Entity"))
  ELSE SetCol(df, "country", "object",
              [r \in 1..NRows(df) |-> astype_str_cell(df.rows[r][1], df.dtypes[1])])

\* Lines 283-288: the country column.
WithCountry(df) ==
  IF HasCol(df, "Entity") THEN SetCol(df, "country", Dtype(df, "Entity"), Column(df, "Entity"))
  ELSE IF HasCol(df, "entity") THEN SetCol(df, "country", Dtype(df, "entity"), Column(df, "entity"))
  ELSE SetCol(df, "country", "object",
              [r \in 1..NRows(df) |-> astype_str_cell(df.rows[r][1], df.dtypes[1])])

\* Lines 290-295: the column the year is read from (0: df.iloc[:,2] is out of bounds).
YearSource(df) ==
  IF HasCol(df, "Year") THEN ColIndex(df, "Year")
  ELSE IF HasCol(df, "year") THEN ColIndex(df, "year")
  ELSE IF Len(df.cols) >= 3 THEN 3
  ELSE 0

\* astype("Int64") raises TypeError on a number that is not integral.
Int64Raises(cells) == \E r \in DOMAIN cells : cells[r].t = "num" /\ cells[r].d # 0

\* Lines 297-300: the iso_alpha column.
WithIso(df) ==
  IF HasCol(df, "Code") THEN SetCol(df, "iso_alpha", Dtype(df, "Code"), Column(df, "Code"))
  ELSE SetCol(df, "iso_alpha", "object", [r \in 1..NRows(df) |-> Null])

\* A mask that selects every row.
IsoMissing_EveryRow(c) == TRUE

\* isna() | (== "")
IsoMissing(c) == isna(c) \/ (c.t = "str" /\ c.s = "")

\* Lines 306-309: the merged-mapping tier, on the rows still missing a code.
MappingTier(df, reg) ==
  LET iso_mapping == get_country_iso_mapping(reg)
      mask == [r \in 1..NRows(df) |-> IsoMissing(Cell(df, r, "iso_alpha"))]
  IN  IF \E r \in 1..NRows(df) : mask[r]
      THEN SetCol(df, "iso_alpha", "object",
                  [r \in 1..NRows(df) |->
                     IF mask[r] THEN map_cell(iso_mapping, Cell(df, r, "country"))
                     ELSE Cell(df, r, "iso_alpha")])
      ELSE df

\* Lines 311-320: the registry lookup tier, on the rows still missing a code.
LookupTier(df, reg) ==
  LET mask == [r \in 1..NRows(df) |-> IsoMissing(Cell(df, r, "iso_alpha"))]
  IN  IF \E r \in 1..NRows(df) : mask[r]
      THEN SetCol(df, "iso_alpha", "object",
                  [r \in 1..NRows(df) |->
                     IF mask[r] THEN name_to_iso(reg, Cell(df, r, "country"))
                     ELSE Cell(df, r, "iso_alpha")])
      ELSE df

\* Lines 322-323: dropna(subset=["iso_alpha"]) and astype(str).
IsoAsText(df) ==
  LET kept == Filter(df, [r \in 1..NRows(df) |-> ~isna(Cell(df, r, "iso_alpha"))])
  IN  SetCol(kept, "iso_alpha", "object",
             [r \in 1..NRows(kept) |->
                astype_str_cell(Cell(kept, r, "iso_alpha"), Dtype(kept, "iso_alpha"))])

\* The aggregate rows left in.
DropAggregates_Skipped(df) == df

\* The aggregate rows matched without regard to case.
DropAggregates_IgnoreCase(df) ==
  Filter(df, [r \in 1..NRows(df) |->
                ~(Cell(df, r, "country").t = "str"
                  /\ lower(Cell(df, r, "country").s) \in {lower(e) : e \in exclude_entities})])

\* Lines 325-329: the aggregate rows are removed.
DropAggregates(df) ==
  Filter(df, [r \in 1..NRows(df) |->
                ~(Cell(df, r, "country").t = "str"
                  /\ Cell(df, r, "country").s \in exclude_entities)])

\* Line 331: df[["country","iso_alpha","year","value"]]
Select(df, names) ==
  Table(names,
        AsTuple([k \in 1..Len(names) |-> Dtype(df, names[k])], Len(names)),
        AsTuple([r \in 1..NRows(df) |->
                   AsTuple([k \in 1..Len(names) |-> Cell(df, r, names[k])], Len(names))],
                NRows(df)))

prepare_owid_df(raw_df, reg) ==
  LET value_col == find_value_column(raw_df.cols) IN
  IF value_col = "" THEN Raise("RuntimeError")
  ELSE
  LET df1 == WithCountry(raw_df)
      ysrc == YearSource(df1)
  IN
  IF ysrc = 0 THEN Raise("IndexError")
  ELSE
  LET years == [r \in 1..NRows(df1) |-> to_numeric_cell(df1.rows[r][ysrc])] IN
  IF Int64Raises(years) THEN Raise("TypeError")
  ELSE
  LET df2 == SetCol(df1, "year", "Int64", years)
      df3 == WithIso(df2)
      df4 == SetCol(df3, "value", "float64",
                    [r \in 1..NRows(df3) |-> to_numeric_cell(Cell(df3, r, value_col))])
      df5 == Filter(df4, [r \in 1..NRows(df4) |->
                            /\ ~isna(Cell(df4, r, "value"))
                            /\ ~isna(Cell(df4, r, "country"))
                            /\ ~isna(Cell(df4, r, "year"))])
      df6 == MappingTier(df5, reg)
      df7 == LookupTier(df6, reg)
      df8 == IsoAsText(df7)
      df9 == DropAggregates(df8)
  IN  Ok(Select(df9, <<"country", "iso_alpha", "year", "value">>))

(***************************************************************************)
(* load_data                                                               *)
(***************************************************************************)
SampleRows ==
  << <<Str("South Korea"), Str("KOR"), Num(2022), Flt(25, 0)>>,
     <<Str("China"), Str("CHN"), Num(2022), Flt(85, 0)>>,
     <<Str("India"), Str("IND"), Num(2022), Flt(95, 0)>>,
     <<Str("Finland"), Str("FIN"), Num(2022), Flt(6, 0)>>,
     <<Str("Iceland"), Str("ISL"), Num(2022), Flt(5, 0)>>,
     <<Str("United States"), Str("USA"), Num(2022), Flt(12, 0)>>,
     <<Str("Germany"), Str("DEU"), Num(2022), Flt(8, 5)>>,
     <<Str("Japan"), Str("JPN"), Num(2022), Flt(15, 2)>>,
     <<Str("Brazil"), Str("BRA"), Num(2022), Flt(18, 3)>>,
     <<Str("Australia"), Str("AUS"), Num(2022), Flt(7, 8)>> >>

\* The sample built when the fetch returned None (lines 444-449).
sample_no_fetch ==
  Table(<<"country", "iso_alpha", "year", "value">>,
        <<"object", "object", "int64", "float64">>, SampleRows)

\* A second literal that lost its last row.
sample_prepare_failed_Shorter ==
  Table(<<"country", "iso_alpha", "year", "value">>,
        <<"object", "object", "int64", "float64">>, SubSeq(SampleRows, 1, Len(SampleRows) - 1))

\* The sample built when prepare_owid_df raised (lines 456-461).
sample_prepare_failed ==
  Table(<<"country", "iso_alpha", "year", "value">>,
        <<"object", "object", "int64", "float64">>, SampleRows)

\* A handler as narrow as `except RuntimeError`.
ExceptionClasses_RuntimeErrorOnly == {"RuntimeError"}

\* The exception classes `except Exception` catches.
ExceptionClasses == {"RuntimeError", "IndexError", "TypeError"}

NoRaw == [none |-> TRUE, df |-> EmptyTable]
SomeRaw(df) == [none |-> FALSE, df |-> df]

Returned(df, flag) == [status |-> "returned", df |-> df, is_sample |-> flag, exc |-> ""]
Raised(e) == [status |-> "raised", df |-> EmptyTable, is_sample |-> FALSE, exc |-> e]
NoResult == [status |-> "none", df |-> EmptyTable, is_sample |-> FALSE, exc |-> ""]

\* How the call of prepare_owid_df inside load_data ended.
NotCalled == [called |-> FALSE, ok |-> FALSE, exc |-> ""]
Called(p) == [called |-> TRUE, ok |-> p.ok, exc |-> p.exc]

\* The handler of lines 455-462 with the flag left False.
OnPrepared_FlagNotSet(p) ==
  IF p.ok THEN Returned(p.df, FALSE)
  ELSE IF p.exc \in ExceptionClasses THEN Returned(sample_prepare_failed, FALSE)
  ELSE Raised(p.exc)

\* The try/except of lines 452-462 around the outcome p of prepare_owid_df.
OnPrepared(p) ==
  IF p.ok THEN Returned(p.df, FALSE)
  ELSE IF p.exc \in ExceptionClasses THEN Returned(sample_prepare_failed, TRUE)
  ELSE Raised(p.exc)

\* load_data: [prep |-> the outcome of prepare_owid_df, out |-> what is returned].
load_data(fetched, reg) ==
  IF fetched.none
  THEN [prep |-> NotCalled, out |-> Returned(sample_no_fetch, TRUE)]
  ELSE LET p == prepare_owid_df(fetched.df, reg) IN
       [prep |-> Called(p), out |-> OnPrepared(p)]

(***************************************************************************)
(* Inputs.                                                                 *)
(***************************************************************************)
BoundedSeq(S, n) == UNION {[1..k -> S] : k \in 0..n}

\* Clock readings (UTC hours): 2023-12-31 15:00, 2024-01-01 01:00 and
\* 2024-01-02 07:00 in Seoul.  At the second one UTC is still in 2023.
Clock == {30, 40, 70}

ColsOwid == <<"Entity", "Code", "Year", "Avg PM2.5 exposure">>
RowsOwid ==
  { <<Str("South Korea"), Str("KOR"), Num(2030), Flt(25, 0)>>,
    <<Str("South Korea"), Str("KOR"), Num(2022), Flt(24, 1)>>,
    <<Str("South Korea"), Str("KOR"), Num(2024), Flt(23, 0)>>,
    <<Str("Korea"), Null, Num(2022), Flt(24, 1)>>,
    <<Str("Romania"), Null, Num(2022), Flt(15, 0)>>,
    <<Str("Kosovo"), Str("OWID_KOS"), Num(2022), Flt(20, 0)>>,
    <<Str("World"), Str("OWID_WRL"), Num(2022), Flt(30, 0)>>,
    <<Str("Narnia"), Null, Num(2022), Flt(1, 0)>> }

ColsNoValue == <<"Entity", "Code", "Year", "population">>
RowsNoValue ==
  { <<Str("South Korea"), Str("KOR"), Num(2022), Num(51)>>,
    <<Str("China"), Str("CHN"), Num(2030), Num(1400)>> }

ColsLower == <<"entity", "year", "value">>
RowsLower ==
  { <<Str("Korea"), Num(2022), Flt(24, 1)>>,
    <<Str("south korea"), Num(2024), Flt(23, 0)>>,
    <<Str("Narnia"), Num(2022), Str("..")>> }

ColsShort == <<"country", "pm25">>
RowsShort == { <<Str("South Korea"), Flt(25, 0)>> }

\* Two columns, none of them named "country".
ColsShortEntity == <<"Entity", "pm25">>

ColsFloatYear == <<"Entity", "Code", "Year", "PM25">>
RowsFloatYear ==
  { <<Str("China"), Str("CHN"), Flt(2022, 5), Flt(85, 0)>>,
    <<Str("China"), Str("CHN"), Num(2022), Flt(85, 0)>> }

RawTables ==
  {read_csv(ColsOwid, rows) : rows \in BoundedSeq(RowsOwid, MaxRows)}
    \cup {read_csv(ColsNoValue, rows) : rows \in BoundedSeq(RowsNoValue, MaxRows)}
    \cup {read_csv(ColsLower, rows) : rows \in BoundedSeq(RowsLower, MaxRows)}
    \cup {read_csv(ColsShort, rows) : rows \in BoundedSeq(RowsShort, MaxRows)}
    \cup {read_csv(ColsShortEntity, rows) : rows \in BoundedSeq(RowsShort, MaxRows)}
    \cup {read_csv(ColsFloatYear, rows) : rows \in BoundedSeq(RowsFloatYear, MaxRows)}

\* Tables handed to remove_future_dates on its own.
FilterRows(cells) == {<<c, Num(7)>> : c \in cells}

NumericYears == {Num(2022), Num(2024), Num(2030), Flt(2024, 5), Null}
NaiveDates == {Ts(24), Ts(48), Ts(72)}
AwareDates == {TsTz(39), TsTz(40), Null}
TextDates == {Str("2023-12-31"), Str("2024-01-02"), Str("n/a")}

FilterTables ==
  {read_csv(<<"year", "value">>, rows) : rows \in BoundedSeq(FilterRows(NumericYears), MaxRows)}
    \cup {Table(<<"date", "value">>, <<"datetime64[ns]", "int64">>, rows) :
            rows \in BoundedSeq(FilterRows(NaiveDates), MaxRows)}
    \cup {Table(<<"date", "value">>, <<"datetime64[ns, tz]", "int64">>, rows) :
            rows \in BoundedSeq(FilterRows(AwareDates), MaxRows)}
    \cup {read_csv(<<"date", "value">>, rows) : rows \in BoundedSeq(FilterRows(TextDates), MaxRows)}
    \cup {read_csv(<<"group", "value">>, rows) :
            rows \in BoundedSeq(FilterRows({Str("a"), Str("b")}), MaxRows)}

(***************************************************************************)
(* The script: fetch_owid_pm25 (lines 249-261), load_data (line 464),      *)
(* remove_future_dates (line 465).                                         *)
(***************************************************************************)
max_retries == 2

FetchErrors == {"ConnectionError", "HTTPError", "ParserError"}

NoCall == [ret |-> EmptyTable, arg |-> EmptyTable]

\* st.cache_data before any call: no entry for load_data, none for
\* fetch_owid_pm25.  age is the time since the fetch entry was stored, in
\* seconds.
NoCache == [load |-> NoResult, fetch |-> NoRaw, stored |-> FALSE, age |-> 0]

\* No tool tab has run.
NoTool == [name |-> "none"]

Init ==
  /\ pc = "fetch"
  /\ registry \in Registries
  /\ attempt = 0
  /\ last_exc = ""
  /\ slept = <<>>
  /\ raw = NoRaw
  /\ prep = NotCalled
  /\ result = NoResult
  /\ fin = EmptyTable
  /\ fcol = ""
  /\ fnow = 0
  /\ fres = NoCall
  /\ runs = <<>>
  /\ cache = NoCache
  /\ tool = NoTool

\* One pass of the retry loop that ends in `return df`.
FetchOk ==
  /\ pc = "fetch"
  /\ attempt <= max_retries
  /\ \E df \in RawTables : raw' = SomeRaw(df)
  /\ pc' = "load"
  /\ UNCHANGED <<registry, attempt, last_exc, slept, prep, result, fin, fcol, fnow, fres, runs, cache, tool>>

\* A failed pass that waits one second whatever the attempt number.
FetchFail_FixedDelay ==
  /\ pc = "fetch"
  /\ attempt <= max_retries
  /\ \E e \in FetchErrors : last_exc' = e
  /\ slept' = Append(slept, 1)
  /\ attempt' = attempt + 1
  /\ UNCHANGED <<pc, registry, raw, prep, result, fin, fcol, fnow, fres, runs, cache, tool>>

\* A failed pass that does not wait when no attempt is left.
FetchFail_NoSleepOnLast ==
  /\ pc = "fetch"
  /\ attempt <= max_retries
  /\ \E e \in FetchErrors : last_exc' = e
  /\ slept' = IF attempt < max_retries THEN Append(slept, 1 + attempt * 2) ELSE slept
  /\ attempt' = attempt + 1
  /\ UNCHANGED <<pc, registry, raw, prep, result, fin, fcol, fnow, fres, runs, cache, tool>>

\* One pass of the retry loop that ends in the except clause.
FetchFail ==
  /\ pc = "fetch"
  /\ attempt <= max_retries
  /\ \E e \in FetchErrors : last_exc' = e
  /\ slept' = Append(slept, 1 + attempt * 2)
  /\ attempt' = attempt + 1
  /\ UNCHANGED <<pc, registry, raw, prep, result, fin, fcol, fnow, fres, runs, cache, tool>>

\* The loop is exhausted and the last exception is raised again.
FetchGiveUp_Reraise ==
  /\ pc = "fetch"
  /\ attempt > max_retries
  /\ raw' = NoRaw
  /\ result' = Raised(last_exc)
  /\ pc' = "crashed"
  /\ UNCHANGED <<registry, attempt, last_exc, slept, prep, fin, fcol, fnow, fres, runs, cache, tool>>

\* The loop is exhausted: return None.
FetchGiveUp ==
  /\ pc = "fetch"
  /\ attempt > max_retries
  /\ raw' = NoRaw
  /\ pc' = "load"
  /\ UNCHANGED <<registry, attempt, last_exc, slept, prep, result, fin, fcol, fnow, fres, runs, cache, tool>>

\* df_pm, is_sample = load_data()
LoadData ==
  /\ pc = "load"
  /\ \E call \in {load_data(raw, registry)} :
       /\ prep' = call.prep
       /\ result' = call.out
       /\ pc' = IF call.out.status = "raised" THEN "crashed" ELSE "loaded"
  /\ UNCHANGED <<registry, attempt, last_exc, slept, raw, fin, fcol, fnow, fres, runs, cache, tool>>

\* df_pm = remove_future_dates(df_pm, date_col="year")
FilterFuture ==
  /\ pc = "loaded"
  /\ \E utc \in Clock :
       /\ fnow' = utc
       /\ fres' = remove_future_dates(result.df, "year", utc)
  /\ fin' = result.df
  /\ fcol' = "year"
  /\ pc' = "presented"
  /\ UNCHANGED <<registry, attempt, last_exc, slept, raw, prep, result, runs, cache, tool>>

Next == FetchOk \/ FetchFail \/ FetchGiveUp \/ LoadData \/ FilterFuture

Spec == Init /\ [][Next]_vars

\* The retry loop is sequential code: a pass that can be made is made (the
\* request has a timeout and the sleep ends).
SpecLive == Init /\ [][Next]_vars /\ WF_vars(FetchOk \/ FetchFail \/ FetchGiveUp)

(***************************************************************************)
(* remove_future_dates called on a table of its own.                       *)
(***************************************************************************)
InitFilter ==
  /\ pc = "idle"
  /\ registry = RegistryCurrent
  /\ attempt = 0
  /\ last_exc = ""
  /\ slept = <<>>
  /\ raw = NoRaw
  /\ prep = NotCalled
  /\ result = NoResult
  /\ fin = EmptyTable
  /\ fcol = ""
  /\ fnow = 0
  /\ fres = NoCall
  /\ runs = <<>>
  /\ cache = NoCache
  /\ tool = NoTool

FilterCall ==
  /\ pc = "idle"
  /\ \E df \in FilterTables, col \in {"date", "year"}, utc \in Clock :
       /\ fin' = df
       /\ fcol' = col
       /\ fnow' = utc
       /\ fres' = remove_future_dates(df, col, utc)
  /\ pc' = "presented"
  /\ UNCHANGED <<registry, attempt, last_exc, slept, raw, prep, result, runs, cache, tool>>

NextFilter == FilterCall

SpecFilter == InitFilter /\ [][NextFilter]_vars

(***************************************************************************)
(* prepare_owid_df followed by remove_future_dates(date_col="year"), run   *)
(* more than once on one table.  Each run reads the clock again.           *)
(***************************************************************************)
MaxRuns == 2

\* pd.DataFrame(...) of rows held in memory: unlike a parsed CSV it can hold
\* "" cells.
DataFrame(cols, rows) ==
  Table(cols,
        AsTuple([k \in 1..Len(cols) |-> InferDtype({rows[r][k] : r \in 1..Len(rows)})],
                Len(cols)),
        rows)

\* Codes present, missing and empty; names the mapping, the registry lookup
\* or neither resolves; a code that differs from what the name maps to.
RowsResolve ==
  { <<Str("South Korea"), Str("KOR"), Num(2022), Flt(24, 1)>>,
    <<Str("Korea"), Null, Num(2022), Flt(24, 1)>>,
    <<Str("south korea"), Str(""), Num(2024), Flt(23, 0)>>,
    <<Str("Narnia"), Null, Num(2022), Flt(1, 0)>>,
    <<Str("Narnia"), Str(""), Num(2030), Flt(1, 0)>>,
    <<Str("China"), Str("TWN"), Num(2022), Flt(85, 0)>> }

\* Aggregates and names close to them, each with a code of its own.
RowsAggregates ==
  { <<Str("World"), Str("OWID_WRL"), Num(2022), Flt(30, 0)>>,
    <<Str("Europe"), Str("EUR"), Num(2022), Flt(12, 0)>>,
    <<Str("world"), Str("WLD"), Num(2022), Flt(30, 0)>>,
    <<Str(" World"), Str("WLD"), Num(2022), Flt(30, 0)>>,
    <<Str("World Bank"), Str("WBK"), Num(2022), Flt(30, 0)>>,
    <<Str("Narnia"), Str("NAR"), Num(2022), Flt(1, 0)>> }

\* Cells that are negative, empty, missing or not numbers.
RowsDirty ==
  { <<Str("China"), Str("CHN"), Num(2022), Flt(-5, 0)>>,
    <<Str(""), Str("KOR"), Num(2022), Flt(25, 0)>>,
    <<Null, Str("KOR"), Num(2022), Flt(25, 0)>>,
    <<Str("China"), Str("CHN"), Str(".."), Flt(85, 0)>>,
    <<Str("China"), Str("CHN"), Num(2022), Str("..")>>,
    <<Str("China"), Str("CHN"), Num(2030), Flt(85, 0)>> }

\* No Entity / entity column: the country is read from the first column.
ColsPositional == <<"Country", "Code", "Year", "PM25">>
RowsPositional ==
  { <<Null, Str("KOR"), Num(2022), Flt(25, 0)>>,
    <<Str("South Korea"), Null, Num(2022), Flt(25, 0)>>,
    <<Str("Narnia"), Null, Num(2022), Flt(1, 0)>> }

\* Headers that differ in the columns after Entity, Code, Year; the cell of
\* the k-th of these columns holds 10 + k.
ValueHeaders ==
  { <<"value", "PM2.5">>, <<"Mean", "AVG">>, <<"pm25 low", "PM 2.5 high">>,
    <<"population", "Average Exposure (ug)">>, <<"PM10", "mean">>,
    <<"values", "median">>, <<"avg pm">> }

HeaderRow(extra) ==
  <<Str("China"), Str("CHN"), Num(2022)>>
    \o AsTuple([k \in 1..Len(extra) |-> Flt(10 + k, 0)], Len(extra))

HeaderTables ==
  UNION {{read_csv(<<"Entity", "Code", "Year">> \o extra, rows) :
            rows \in BoundedSeq({HeaderRow(extra)}, MaxRows)} : extra \in ValueHeaders}

\* Headers that hold a name in both spellings, a lower-case "code" column,
\* or no Entity / Year column in either spelling, each with one kind of row.
ResolutionRows ==
  { [cols |-> <<"entity", "Entity", "year", "Year", "code", "pm25">>,
     row |-> <<Str("China"), Str("South Korea"), Num(2021), Num(2022), Str("XXX"), Flt(10, 0)>>],
    [cols |-> <<"Land", "code", "Jahr", "pm25">>,
     row |-> <<Str("China"), Str("XXX"), Num(2022), Flt(10, 0)>>],
    [cols |-> <<"Land", "Code", "pm25", "Jahr">>,
     row |-> <<Str("China"), Str("CHN"), Num(2020), Num(2022)>>] }

ResolutionTables ==
  UNION {{read_csv(h.cols, rows) : rows \in BoundedSeq({h.row}, MaxRows)} : h \in ResolutionRows}

PrepareTables ==
  HeaderTables \cup ResolutionTables \cup
  {DataFrame(ColsOwid, rows) : rows \in BoundedSeq(RowsResolve, MaxRows)}
    \cup {DataFrame(ColsOwid, rows) : rows \in BoundedSeq(RowsAggregates, MaxRows)}
    \cup {DataFrame(ColsOwid, rows) : rows \in BoundedSeq(RowsDirty, MaxRows)}
    \cup {read_csv(ColsPositional, rows) : rows \in BoundedSeq(RowsPositional, MaxRows)}
    \cup {read_csv(ColsLower, rows) : rows \in BoundedSeq(RowsLower, MaxRows)}
    \cup {read_csv(ColsFloatYear, rows) : rows \in BoundedSeq(RowsFloatYear, MaxRows)}

\* Clock readings (UTC hours): 2023-12-31 23:00, 2024-01-01 01:00 and
\* 2024-01-01 11:00 in Seoul.  The last two are the same day in Seoul and
\* different years in UTC.
RunClock == {38, 40, 50}

InitPrepare ==
  /\ pc = "pipeline"
  /\ registry \in Registries
  /\ attempt = 0
  /\ last_exc = ""
  /\ slept = <<>>
  /\ raw \in {SomeRaw(df) : df \in PrepareTables}
  /\ prep = NotCalled
  /\ result = NoResult
  /\ fin = EmptyTable
  /\ fcol = ""
  /\ fnow = 0
  /\ fres = NoCall
  /\ runs = <<>>
  /\ cache = NoCache
  /\ tool = NoTool

\* One run: [now |-> the clock reading, out |-> how prepare_owid_df ended,
\* shown |-> the table remove_future_dates returned].
RunPipeline ==
  /\ pc = "pipeline"
  /\ Len(runs) < MaxRuns
  /\ \E out \in {prepare_owid_df(raw.df, registry)} :
       \E utc \in RunClock :
         runs' = Append(runs,
                        [now |-> utc, out |-> out,
                         shown |-> IF out.ok
                                   THEN remove_future_dates(out.df, "year", utc).ret
                                   ELSE EmptyTable])
  /\ UNCHANGED <<pc, registry, attempt, last_exc, slept, raw, prep, result, fin, fcol, fnow, fres, cache, tool>>

NextPrepare == RunPipeline

SpecPrepare == InitPrepare /\ [][NextPrepare]_vars

(***************************************************************************)
(* The script run again and again by one server process, with the entries  *)
(* st.cache_data keeps between runs: fetch_owid_pm25 is cached with        *)
(* ttl=3600 (line 249), load_data is cached without a ttl (line 439), so   *)
(* its entry lasts until the process ends.                                 *)
(***************************************************************************)
ttl == 3600

MaxTicks == 3

\* The delays of k failed attempts.
Delays(k) == AsTuple([i \in 1..k |-> 1 + (i - 1) * 2], k)

InitRerun ==
  /\ pc = "waiting"
  /\ registry = RegistryCurrent
  /\ attempt = 0
  /\ last_exc = ""
  /\ slept = <<>>
  /\ raw = NoRaw
  /\ prep = NotCalled
  /\ result = NoResult
  /\ fin = EmptyTable
  /\ fcol = ""
  /\ fnow = 0
  /\ fres = NoCall
  /\ runs = <<>>
  /\ cache = NoCache
  /\ tool = NoTool

\* What a call of fetch_owid_pm25's body can return, with the locals it
\* ends with: k failed attempts, then a table, or None after the last one.
FetchBodies ==
  {[raw |-> SomeRaw(df), attempt |-> k, last_exc |-> e] :
     df \in RawTables, k \in 1..max_retries, e \in FetchErrors}
    \cup {[raw |-> SomeRaw(df), attempt |-> 0, last_exc |-> ""] : df \in RawTables}
    \cup {[raw |-> NoRaw, attempt |-> max_retries + 1, last_exc |-> e] : e \in FetchErrors}

\* The body of load_data run with the return value of fetch_owid_pm25(),
\* which is the entry when there is one younger than ttl, else what the
\* function body returns; both return values become entries.
LoadBody ==
  IF cache.stored /\ cache.age < ttl
  THEN \E call \in {load_data(cache.fetch, registry)} :
         /\ raw' = cache.fetch
         /\ prep' = call.prep
         /\ cache' = [cache EXCEPT !.load = call.out]
         /\ result' = call.out
         /\ UNCHANGED <<attempt, last_exc, slept>>
  ELSE \E f \in FetchBodies :
         \E call \in {load_data(f.raw, registry)} :
           /\ attempt' = f.attempt
           /\ slept' = Delays(f.attempt)
           /\ last_exc' = f.last_exc
           /\ raw' = f.raw
           /\ prep' = call.prep
           /\ cache' = [load |-> call.out, fetch |-> f.raw, stored |-> TRUE, age |-> 0]
           /\ result' = call.out

\* One run of the script (lines 464-465): load_data() answers from its
\* entry when it has one, else runs its body and stores what it returns.
Rerun ==
  /\ pc \in {"waiting", "presented"}
  /\ IF cache.load.status = "returned"
     THEN result' = cache.load /\ UNCHANGED <<cache, raw, prep, attempt, last_exc, slept>>
     ELSE LoadBody
  /\ \E utc \in Clock :
       /\ fnow' = utc
       /\ fres' = remove_future_dates(result'.df, "year", utc)
  /\ fin' = result'.df
  /\ fcol' = "year"
  /\ pc' = "presented"
  /\ UNCHANGED <<registry, runs, tool>>

\* Half a ttl passes without a run.
Tick ==
  /\ cache.stored
  /\ cache.age < MaxTicks * (ttl \div 2)
  /\ cache' = [cache EXCEPT !.age = @ + ttl \div 2]
  /\ pc' = "waiting"
  /\ UNCHANGED <<registry, attempt, last_exc, slept, raw, prep, result, fin, fcol, fnow, fres, runs, tool>>

\* The server process is started again: the in-memory entries and the
\* script's variables are gone.
Restart ==
  /\ cache.stored
  /\ cache' = NoCache
  /\ pc' = "waiting"
  /\ attempt' = 0
  /\ last_exc' = ""
  /\ slept' = <<>>
  /\ raw' = NoRaw
  /\ prep' = NotCalled
  /\ result' = NoResult
  /\ fin' = EmptyTable
  /\ fcol' = ""
  /\ fnow' = 0
  /\ fres' = NoCall
  /\ UNCHANGED <<registry, runs, tool>>

NextRerun == Rerun \/ Tick \/ Restart

SpecRerun == InitRerun /\ [][NextRerun]_vars

(***************************************************************************)
(* The tool tabs: the air-quality alert tool (lines 878-927) and the risk  *)
(* assessment tool (lines 977-1045).  Each action is one run of a tab with *)
(* the values its widgets hold.  Scores and slider values are in tenths.   *)
(* The texts the tabs show are named in English:                           *)
(*   guide:  "ventilate now", "wear a mask", "ventilate", "CO2 caution",   *)
(*           "good" (lines 896-909)                                        *)
(*   advice: "ventilate now", "wear a mask", "PM2.5 above the warning      *)
(*           level", "keep the current state" (lines 916-927)              *)
(*   level:  "low", "medium", "high", "very high" (lines 1024-1035)        *)
(***************************************************************************)
InitTools ==
  /\ pc = "tools"
  /\ registry = RegistryCurrent
  /\ attempt = 0
  /\ last_exc = ""
  /\ slept = <<>>
  /\ raw = NoRaw
  /\ prep = NotCalled
  /\ result = NoResult
  /\ fin = EmptyTable
  /\ fcol = ""
  /\ fnow = 0
  /\ fres = NoCall
  /\ runs = <<>>
  /\ cache = NoCache
  /\ tool = NoTool

\* Lines 882-885 and 890-892: the sidebar thresholds (minimum, default,
\* maximum of each) and the three measurements.
AlertInputs ==
  [co2_danger_threshold : {1000, 1500, 2000},
   co2_warning_threshold : {800, 1000, 1500},
   pm25_danger_threshold : {50, 75, 200},
   pm25_warning_threshold : {15, 35, 75},
   out_pm : {0, 30, 76, 151},
   in_pm : {0, 40, 76, 201},
   in_co2 : {200, 900, 1200, 2100}]

\* Lines 896-909: the headline guide.
guide(w) ==
  IF w.in_co2 > w.co2_danger_threshold THEN "ventilate now"
  ELSE IF w.in_pm > w.pm25_danger_threshold /\ w.out_pm > 150 THEN "wear a mask"
  ELSE IF w.in_pm > w.pm25_warning_threshold \/ w.out_pm > 75 THEN "ventilate"
  ELSE IF w.in_co2 > w.co2_warning_threshold THEN "CO2 caution"
  ELSE "good"

\* Lines 916-927: the detailed recommendation.
advice(w) ==
  IF w.in_co2 > w.co2_danger_threshold THEN "ventilate now"
  ELSE IF w.in_pm > w.pm25_danger_threshold /\ w.out_pm > 150 THEN "wear a mask"
  ELSE IF w.in_pm > w.pm25_warning_threshold THEN "PM2.5 above the warning level"
  ELSE "keep the current state"

\* tool_tabs[1]
AlertTool ==
  /\ pc = "tools"
  /\ \E w \in AlertInputs :
       tool' = [name |-> "alert", widgets |-> w, guide |-> guide(w), advice |-> advice(w)]
  /\ pc' = "shown"
  /\ UNCHANGED <<registry, attempt, last_exc, slept, raw, prep, result, fin, fcol, fnow, fres, runs, cache>>

\* Lines 980-982, 987-990 and 1018-1020: thresholds, the exposure, the
\* three select boxes (the position of the option chosen) and the sliders.
RiskInputs ==
  [pm_low_threshold : {15, 25},
   pm_medium_threshold : {20, 35},
   pm_high_threshold : {75},
   pm_exposure : {0, 20, 30, 60, 120},
   vent_freq : 1..4,
   mask_use : 1..4,
   exercise : 1..4,
   low_threshold : {5, 15, 30},
   medium_threshold : {20, 30},
   high_threshold : {40, 50}]

vent_scores == <<30, 20, 10, 0>>
mask_scores == <<0, -5, -10, -15>>
exercise_scores == <<-10, -5, 0, 10>>

\* Lines 994-1015.
risk_score(w) ==
  (IF w.pm_exposure < w.pm_low_threshold THEN 0
   ELSE IF w.pm_exposure < w.pm_medium_threshold THEN 10
   ELSE IF w.pm_exposure < w.pm_high_threshold THEN 20
   ELSE 30)
  + vent_scores[w.vent_freq] + mask_scores[w.mask_use] + exercise_scores[w.exercise]

\* Lines 1023-1035.
risk_level(w) ==
  IF risk_score(w) <= w.low_threshold THEN "low"
  ELSE IF risk_score(w) <= w.medium_threshold THEN "medium"
  ELSE IF risk_score(w) <= w.high_threshold THEN "high"
  ELSE "very high"

\* The names the script has assigned when line 1039 is reached.
NamesAtSuggestions ==
  {"pm_low_threshold", "pm_medium_threshold", "pm_high_threshold", "pm_exposure",
   "vent_freq", "mask_use", "exercise", "risk_score", "vent_scores", "mask_scores",
   "exercise_scores", "low_threshold", "medium_threshold", "high_threshold",
   "risk_level", "risk_advice"}

\* The suggestions with the boundaries taken from the sliders.
Suggestions_FromSliders(w) ==
  [exc |-> "",
   shown |-> (IF risk_score(w) > w.medium_threshold THEN {"ventilate", "mask", "purifier"} ELSE {})
             \cup (IF risk_score(w) > w.low_threshold THEN {"exercise", "no smoking"} ELSE {})]

\* Lines 1038-1045: the suggestions read risk_boundaries[1] and
\* risk_boundaries[0]; reading a name that was never assigned raises
\* NameError at the first of them.
Suggestions(w) ==
  IF "risk_boundaries" \in NamesAtSuggestions
  THEN Suggestions_FromSliders(w)
  ELSE [exc |-> "NameError", shown |-> {}]

\* tool_tabs[3]
RiskTool ==
  /\ pc = "tools"
  /\ \E w \in RiskInputs :
       tool' = [name |-> "risk", widgets |-> w, score |-> risk_score(w),
                level |-> risk_level(w), suggestions |-> Suggestions(w)]
  /\ pc' = "shown"
  /\ UNCHANGED <<registry, attempt, last_exc, slept, raw, prep, result, fin, fcol, fnow, fres, runs, cache>>

NextTools == AlertTool \/ RiskTool

SpecTools == InitTools /\ [][NextTools]_vars

(***************************************************************************)
(* Properties.                                                             *)
(***************************************************************************)
Loaded == result.status = "returned"
Live == Loaded /\ ~result.is_sample
Filtered == pc = "presented"

\* The current calendar year in Asia/Seoul at UTC hour utc.
SeoulYear(utc) == IF utc + 9 < 48 THEN 2023 ELSE 2024

\* The start of today in Asia/Seoul at UTC hour utc, as a Seoul wall-clock hour.
SeoulMidnight(utc) == ((utc + 9) \div 24) * 24

IsIso3(c) ==
  c.t = "str" /\ Len(c.s) = 3 /\ \A i \in 1..3 : IsUpperLetter(Ch(c.s, i))

NumericColumn(df, col) == Dtype(df, col) \in {"int64", "Int64", "float64"}

\* C1: every row of the table prepare_owid_df returns has an iso_alpha of
\* exactly 3 uppercase letters, also when the code came from the source's
\* Code column.
C1_IsoAlphaThreeUppercase ==
  Live => \A r \in 1..NRows(result.df) : IsIso3(Cell(result.df, r, "iso_alpha"))

\* C2: a failed fetch gives the fallback table with is_sample = TRUE;
\* is_sample is TRUE exactly when the returned table is the fallback table,
\* and a fetch and normalization that both succeed give is_sample = FALSE.
C2_SampleFlagIffFallback ==
  Loaded =>
    /\ (raw.none => result.df = sample_no_fetch /\ result.is_sample)
    /\ (result.is_sample <=> result.df = sample_no_fetch)
    /\ ((~raw.none /\ prep.ok) => ~result.is_sample)

C2_Witness == Loaded /\ raw.none /\ attempt = max_retries + 1 /\ result.is_sample

\* C3: a raw table without a pollutant-named or generic value column makes
\* prepare_owid_df raise the value-column error, and load_data returns
\* exactly the fallback table.
C3_NoValueColumnGivesFallback ==
  (/\ Loaded
   /\ ~raw.none
   /\ \A i \in 1..Len(raw.df.cols) :
        ~IsPollutantName(raw.df.cols[i]) /\ ~IsGenericName(raw.df.cols[i]))
  => /\ prep = Called(Raise("RuntimeError"))
     /\ result.df = sample_no_fetch
     /\ result.is_sample

C3_Witness ==
  Loaded /\ ~raw.none /\ raw.df.cols = ColsNoValue /\ NRows(raw.df) = 2 /\ result.is_sample

\* C4: load_data never raises: whatever the fetch returned and whatever
\* prepare_owid_df raised, the script goes on with a (table, flag) pair.
C4_LoadDataNeverRaises ==
  /\ pc # "crashed"
  /\ result.status \in {"none", "returned"}
  /\ pc \in {"loaded", "presented"} =>
       /\ Loaded
       /\ result.df.cols = <<"country", "iso_alpha", "year", "value">>
       /\ (result.is_sample \/ prep.ok)

C4_Witness ==
  Loaded /\ ~raw.none /\ prep.exc \in {"IndexError", "TypeError"}

\* C5: after load_data and remove_future_dates(date_col="year") no row of
\* df_pm has a year later than the current year in Asia/Seoul, on the live
\* path and on the fallback path.
C5_NoFutureYearPresented ==
  (Filtered /\ fcol = "year" /\ fin = result.df) =>
    \A r \in 1..NRows(fres.ret) :
      /\ Cell(fres.ret, r, "year").t = "num"
      /\ Cell(fres.ret, r, "year").n <= SeoulYear(fnow)

C5_Witness ==
  /\ Filtered /\ Live /\ fnow = 40
  /\ NRows(fin) = 2 /\ NRows(fres.ret) = 1
  /\ Cell(fres.ret, 1, "year") = Num(2024)

\* The rows of a table whose cell in column k is a year <= y, in order.
YearsUpTo(rows, k, y) ==
  SelectSeq(rows, LAMBDA row :
    row[k].t = "num" /\ (row[k].n < y \/ (row[k].n = y /\ row[k].d = 0)))

\* C6: on a numeric column remove_future_dates keeps exactly the rows whose
\* year is <= the current year in Asia/Seoul.
C6_NumericYearKeptIffNotFuture ==
  (Filtered /\ HasCol(fin, fcol) /\ NumericColumn(fin, fcol)) =>
    /\ fres.ret.cols = fin.cols
    /\ fres.ret.rows = YearsUpTo(fin.rows, ColIndex(fin, fcol), SeoulYear(fnow))

\* 2030 and 2022 with today = 2024-01-01 in Seoul: only 2022 remains.
C6_Witness ==
  /\ Filtered /\ fcol = "year" /\ fnow = 40
  /\ NumericColumn(fin, fcol)
  /\ fin.rows = << <<Num(2030), Num(7)>>, <<Num(2022), Num(7)>> >>
  /\ fres.ret.rows = << <<Num(2022), Num(7)>> >>

\* C7: on a date-valued column every row of the result has a date that
\* parsed and is not later than the start of today in Asia/Seoul, for
\* timezone-naive and timezone-aware values alike.
C7_NoFutureDateInResult ==
  (Filtered /\ HasCol(fin, fcol) /\ ~NumericColumn(fin, fcol)) =>
    \A r \in 1..NRows(fres.ret) :
      LET c == Cell(fres.ret, r, fcol) IN
        \/ (c.t = "ts" /\ c.n <= SeoulMidnight(fnow))
        \/ (c.t = "tstz" /\ c.n + 9 <= SeoulMidnight(fnow))

\* C8: when a step of remove_future_dates raises (the comparison of a
\* timezone-naive column with the timezone-aware today), the table returned
\* is the table passed in.
C8_FaultReturnsInput ==
  (/\ Filtered /\ HasCol(fin, fcol) /\ ~NumericColumn(fin, fcol)
   /\ Dtype(fres.arg, fcol) = "datetime64[ns]")
  => fres.ret = fin

\* C9: when the named column is absent remove_future_dates returns its
\* input unchanged.
C9_AbsentColumnNoOp ==
  (Filtered /\ ~HasCol(fin, fcol)) => fres.ret = fin

C9_Witness ==
  /\ Filtered /\ fcol = "year" /\ ~HasCol(fin, fcol)
  /\ fin.cols = <<"date", "value">> /\ NRows(fin) = 2
  /\ fin.rows[1][1] = Ts(72)

\* The raw rows of a country all lack a code (missing or "").
CodeMissingInRaw(name) ==
  /\ HasCol(raw.df, "Entity")
  /\ \A r \in 1..NRows(raw.df) :
       Cell(raw.df, r, "Entity") = Str(name) =>
         (~HasCol(raw.df, "Code") \/ IsoMissing(Cell(raw.df, r, "Code")))

\* C10: a row without a code whose country is a key of the static table is
\* given the static table's code, also when the registry holds the name.
C10_StaticTableWins ==
  Live =>
    \A r \in 1..NRows(result.df) :
      LET c == Cell(result.df, r, "country") IN
        (c.t = "str" /\ DictHas(common_mappings, c.s) /\ CodeMissingInRaw(c.s))
          => Cell(result.df, r, "iso_alpha") = Str(DictGet(common_mappings, c.s))


(***************************************************************************)
(* Properties of prepare_owid_df, row by row.                              *)
(***************************************************************************)
\* prepare_owid_df has been called once on `raw`; Prepared is how it ended.
RunsDone == pc = "pipeline" /\ Len(runs) = 1
Prepared == runs[1].out

\* The raw table cut down to its row i, every column keeping its dtype.
RowAlone(i) == Table(raw.df.cols, raw.df.dtypes, <<raw.df.rows[i]>>)

\* What prepare_owid_df makes of row i when it is the only row.
RowOut(i) == prepare_owid_df(RowAlone(i), registry)

\* The outcomes of all the raw rows, each taken alone.
RowOuts == AsTuple([i \in 1..NRows(raw.df) |-> RowOut(i)], NRows(raw.df))

\* The output rows of outcomes i.. put one after the other.
RECURSIVE RowWise(_, _)
RowWise(outs, i) == IF i > Len(outs) THEN <<>> ELSE outs[i].df.rows \o RowWise(outs, i + 1)

\* The country of raw row i as prepare_owid_df reads it.
CountryOf(i) == Cell(WithCountry(raw.df), i, "country")

\* The cell of raw row i the country is read from.
CountrySource(i) ==
  IF HasCol(raw.df, "Entity") THEN Cell(raw.df, i, "Entity")
  ELSE IF HasCol(raw.df, "entity") THEN Cell(raw.df, i, "entity")
  ELSE raw.df.rows[i][1]

\* The source code of raw row i is missing or the empty string.
CodeUnset(i) == ~HasCol(raw.df, "Code") \/ Cell(raw.df, i, "Code") \in {Null, Str("")}

\* Every name the first tier knows, and every key the registry answers to.
TierOneNames ==
  {common_mappings[k][1] : k \in 1..Len(common_mappings)}
    \cup {registry.records[k].name : k \in 1..Len(registry.records)}
    \cup ({registry.records[k].official_name : k \in 1..Len(registry.records)} \ {""})

TierTwoKeys ==
  UNION {{lower(registry.records[k].alpha_2), lower(registry.records[k].alpha_3),
          lower(registry.records[k].name), lower(registry.records[k].official_name),
          lower(registry.records[k].common_name)} : k \in 1..Len(registry.records)} \ {""}

MatchedByNoTier(c) ==
  c.t # "str" \/ (c.s \notin TierOneNames /\ lower(c.s) \notin TierTwoKeys)

\* C11: a row whose code is missing or empty and whose country no tier
\* matches is absent from the output of prepare_owid_df; such a row does not
\* abort the call, and the other rows come out as they do without it (the
\* output is the row-by-row output, in order).
C11_UnresolvedRowDropped ==
  RunsDone =>
    \E outs \in {RowOuts} :
      /\ (Len(outs) > 0 /\ \A i \in 1..Len(outs) : outs[i].ok) => Prepared.ok
      /\ Prepared.ok =>
           /\ Prepared.df.rows = RowWise(outs, 1)
           /\ \A i \in 1..Len(outs) :
                (CodeUnset(i) /\ MatchedByNoTier(CountryOf(i))) => outs[i].df.rows = <<>>

\* "Narnia" without a code next to "Korea" without a code: only Korea is left.
C11_Witness ==
  /\ RunsDone /\ Prepared.ok
  /\ NRows(raw.df) = 2
  /\ raw.df.rows[1][1] = Str("Narnia") /\ raw.df.rows[1][2] = Null
  /\ raw.df.rows[2][1] = Str("Korea") /\ raw.df.rows[2][2] = Null
  /\ Prepared.df.rows = << <<Str("Korea"), Str("KOR"), Num(2022), Flt(24, 1)>> >>

\* The source code of raw row i is a non-empty text.
CodeGiven(i) ==
  /\ HasCol(raw.df, "Code")
  /\ Cell(raw.df, i, "Code").t = "str"
  /\ Cell(raw.df, i, "Code").s # ""

\* C12: a row that arrives with a non-empty Code is either dropped or comes
\* out with exactly that code, whatever its country maps to; the resolver
\* only fills rows whose code is missing or empty.
C12_GivenCodeKept ==
  (RunsDone /\ Prepared.ok) =>
    \E outs \in {RowOuts} :
      /\ Prepared.df.rows = RowWise(outs, 1)
      /\ \A i \in 1..Len(outs) :
           CodeGiven(i) =>
             \A r \in 1..Len(outs[i].df.rows) :
               outs[i].df.rows[r][2] = Cell(raw.df, i, "Code")

\* "China" with the code TWN next to "Korea" without a code: TWN stays,
\* Korea is filled.
C12_Witness ==
  /\ RunsDone /\ Prepared.ok
  /\ NRows(raw.df) = 2
  /\ raw.df.rows[1][1] = Str("China") /\ raw.df.rows[1][2] = Str("TWN")
  /\ raw.df.rows[2][1] = Str("Korea") /\ raw.df.rows[2][2] = Null
  /\ Prepared.df.rows = << <<Str("China"), Str("TWN"), Num(2022), Flt(85, 0)>>,
                           <<Str("Korea"), Str("KOR"), Num(2022), Flt(24, 1)>> >>

\* The deny-list: World, the four income bands and the regions.
DenyList ==
  {"World", "High-income countries", "Upper-middle-income countries",
   "Lower-middle-income countries", "Low-income countries", "Europe", "Asia",
   "Africa", "North America", "South America", "Oceania"}

\* C13: no row of the output of prepare_owid_df has a country on the
\* deny-list, whatever the raw table.
C13_NoAggregateInOutput ==
  (RunsDone /\ Prepared.ok) =>
    \A r \in 1..NRows(Prepared.df) :
      \A e \in DenyList : Cell(Prepared.df, r, "country") # Str(e)

\* "Europe" (with a code) next to "Narnia": only Narnia is left.
C13_Witness ==
  /\ RunsDone /\ Prepared.ok
  /\ NRows(raw.df) = 2
  /\ raw.df.rows[1][1] = Str("Europe") /\ raw.df.rows[1][2] = Str("EUR")
  /\ raw.df.rows[2][1] = Str("Narnia") /\ raw.df.rows[2][2] = Str("NAR")
  /\ Prepared.df.rows = << <<Str("Narnia"), Str("NAR"), Num(2022), Flt(1, 0)>> >>

\* Raw row i has everything it needs to reach the aggregate-removal step: a
\* country and a code that are text, a year and a measurement that are
\* numbers.
ReachesAggregateStep(i) ==
  /\ HasCol(raw.df, "Year")
  /\ CountrySource(i).t = "str"
  /\ CodeGiven(i)
  /\ Cell(raw.df, i, "Year").t = "num" /\ Cell(raw.df, i, "Year").d = 0
  /\ Cell(raw.df, i, find_value_column(raw.df.cols)).t = "num"

\* C14: a row that reaches the aggregate-removal step is removed if and only
\* if its country equals a deny-list string exactly (another case, blanks
\* around it or a longer name do not count); a row that is kept comes out
\* with its country, code, year and value unchanged, whatever rows are next
\* to it.
C14_ExactDenyListMatchOnly ==
  (RunsDone /\ Prepared.ok) =>
    \E outs \in {RowOuts} :
      /\ Prepared.df.rows = RowWise(outs, 1)
      /\ \A i \in 1..Len(outs) :
           ReachesAggregateStep(i) =>
             outs[i].df.rows =
               IF CountrySource(i).s \in DenyList THEN <<>>
               ELSE << <<CountrySource(i), Cell(raw.df, i, "Code"), Cell(raw.df, i, "Year"),
                         Cell(raw.df, i, find_value_column(raw.df.cols))>> >>

\* "world" next to "World": the lower-case one stays.
C14_Witness ==
  /\ RunsDone /\ Prepared.ok
  /\ NRows(raw.df) = 2
  /\ raw.df.rows[1][1] = Str("world")
  /\ raw.df.rows[2][1] = Str("World")
  /\ Prepared.df.rows = << <<Str("world"), Str("WLD"), Num(2022), Flt(30, 0)>> >>

\* The cells of raw row i the year and the value are read from.
YearSourceCell(i) == raw.df.rows[i][YearSource(WithCountry(raw.df))]
ValueSourceCell(i) == Cell(raw.df, i, find_value_column(raw.df.cols))

\* A cell that is a number or the text of one.
Coercible(c) == c.t = "num" \/ (c.t = "str" /\ ParseNum(c.s) # Null)

\* C15: when prepare_owid_df succeeds its output has exactly the columns
\* country, iso_alpha, year, value; every row has a country, a year and a
\* value that are not null; a raw row whose year or value is not coercible
\* to a number is not in the output.
C15_FourColumnsNoNulls ==
  (RunsDone /\ Prepared.ok) =>
    /\ Prepared.df.cols = <<"country", "iso_alpha", "year", "value">>
    /\ \A r \in 1..NRows(Prepared.df) :
         /\ Len(Prepared.df.rows[r]) = 4
         /\ Prepared.df.rows[r][1].t # "nan"
         /\ Prepared.df.rows[r][3].t = "num"
         /\ Prepared.df.rows[r][4].t = "num"
    /\ \E outs \in {RowOuts} :
         /\ Prepared.df.rows = RowWise(outs, 1)
         /\ \A i \in 1..Len(outs) :
              (~Coercible(YearSourceCell(i)) \/ ~Coercible(ValueSourceCell(i)))
                => outs[i].df.rows = <<>>

\* A year of ".." next to a year of 2030: only the second row is left.
C15_Witness ==
  /\ RunsDone /\ Prepared.ok
  /\ NRows(raw.df) = 2
  /\ raw.df.rows[1][3] = Str("..")
  /\ raw.df.rows[2][3] = Num(2030)
  /\ Prepared.df.rows = << <<Str("China"), Str("CHN"), Num(2030), Flt(85, 0)>> >>

\* C16: every row of the output of prepare_owid_df has a value >= 0; a raw
\* row with a negative measurement is not in the output.
C16_ValueNonNegative ==
  (RunsDone /\ Prepared.ok) =>
    \A r \in 1..NRows(Prepared.df) :
      /\ Cell(Prepared.df, r, "value").t = "num"
      /\ Cell(Prepared.df, r, "value").n >= 0

\* C17: every row of the output of prepare_owid_df has a country that is a
\* non-empty text; a raw row whose country cell is missing or the empty
\* string is not in the output, also when the country is read from the
\* first column and turned into text.
C17_CountryNonEmpty ==
  (RunsDone /\ Prepared.ok) =>
    /\ \A r \in 1..NRows(Prepared.df) :
         /\ Cell(Prepared.df, r, "country").t = "str"
         /\ Cell(Prepared.df, r, "country").s # ""
    /\ \E outs \in {RowOuts} :
         \A i \in 1..Len(outs) :
           CountrySource(i) \in {Null, Str("")} => outs[i].df.rows = <<>>

\* C18: the fallback table has exactly the four canonical columns and 10
\* rows of one year, codes of 3 uppercase letters, values >= 0, non-empty
\* countries none of which is an aggregate; remove_future_dates on "year"
\* returns it with all 10 rows unchanged; the two literals of load_data are
\* the same table.
C18_FallbackMeetsInvariants ==
  /\ sample_no_fetch = sample_prepare_failed
  /\ (Loaded /\ result.is_sample) =>
       /\ result.df.cols = <<"country", "iso_alpha", "year", "value">>
       /\ NRows(result.df) = 10
       /\ \A r \in 1..NRows(result.df) :
            /\ Len(result.df.rows[r]) = 4
            /\ Cell(result.df, r, "country").t = "str"
            /\ Cell(result.df, r, "country").s \notin DenyList \cup {""}
            /\ IsIso3(Cell(result.df, r, "iso_alpha"))
            /\ Cell(result.df, r, "year") = Cell(result.df, 1, "year")
            /\ Cell(result.df, r, "year").t = "num"
            /\ Cell(result.df, r, "value").t = "num"
            /\ Cell(result.df, r, "value").n >= 0
  /\ (Filtered /\ result.is_sample /\ fin = result.df) =>
       /\ fres.ret = result.df
       /\ NRows(fres.ret) = 10

\* The fallback built after prepare_owid_df raised, filtered on 2023-12-31.
C18_Witness ==
  /\ Filtered /\ result.is_sample /\ ~raw.none /\ ~prep.ok
  /\ fin = result.df /\ fnow = 30
  /\ NRows(fres.ret) = 10

Fetched == pc # "fetch"

\* C20: fetch_owid_pm25 makes at most max_retries + 1 attempts and returns:
\* the table of the first attempt that succeeds, with no attempt after it,
\* or None exactly when all max_retries + 1 attempts failed; it never
\* raises.
C20_FetchBoundedNeverRaises ==
  /\ [](/\ attempt <= max_retries + 1
        /\ Len(slept) = attempt
        /\ pc # "crashed"
        /\ Fetched => /\ raw.none <=> attempt = max_retries + 1
                      /\ ~raw.none => attempt + 1 <= max_retries + 1)
  /\ [][Fetched => (attempt' = attempt /\ raw' = raw /\ slept' = slept)]_vars
  /\ [][(~Fetched /\ Fetched') => (attempt' = attempt /\ (raw'.none <=> raw' = NoRaw))]_vars
  /\ <>Fetched

\* Two failed attempts, then the third one returns a table.
C20_Witness ==
  /\ Fetched /\ ~raw.none /\ NRows(raw.df) > 0
  /\ attempt = 2 /\ slept = <<1, 3>>

(***************************************************************************)
(* Column detection and field resolution.                                  *)
(***************************************************************************)
PollutantHits(cols) ==
  {i \in 1..Len(cols) :
     \E sub \in {"pm2", "pm 2", "pm25", "average exposure"} : Contains(sub, lower(cols[i]))}

GenericHits(cols) == {i \in 1..Len(cols) : lower(cols[i]) \in {"value", "avg", "mean"}}

Least(S) == CHOOSE i \in S : \A j \in S : i <= j

\* The index of the column the detector is to return; 0 for not found.
ExpectedValueColumn(cols) ==
  IF PollutantHits(cols) # {} THEN Least(PollutantHits(cols))
  ELSE IF GenericHits(cols) # {} THEN Least(GenericHits(cols))
  ELSE 0

\* C21: find_value_column returns the first column whose lower-cased name
\* contains "pm2", "pm 2", "pm25" or "average exposure"; failing that the
\* first whose lower-cased name is "value", "avg" or "mean"; failing that
\* nothing, and prepare_owid_df raises its value-column error.  The output
\* values are read from the column it returned.
C21_ValueColumnDetection ==
  RunsDone =>
    \E e \in {ExpectedValueColumn(raw.df.cols)} :
      /\ e = 0 <=> find_value_column(raw.df.cols) = ""
      /\ e = 0 <=> Prepared = Raise("RuntimeError")
      /\ e # 0 => find_value_column(raw.df.cols) = raw.df.cols[e]
      /\ (Prepared.ok /\ NRows(Prepared.df) = NRows(raw.df)) =>
           \A r \in 1..NRows(raw.df) :
             Prepared.df.rows[r][4] = to_numeric_cell(raw.df.rows[r][e])

\* "value" comes before "PM2.5": the values are those of "PM2.5".
C21_Witness ==
  /\ RunsDone /\ Prepared.ok
  /\ raw.df.cols = <<"Entity", "Code", "Year", "value", "PM2.5">>
  /\ NRows(raw.df) = 1
  /\ Prepared.df.rows = << <<Str("China"), Str("CHN"), Num(2022), Flt(12, 0)>> >>

\* C23: remove_future_dates leaves the table it is given as it was (same
\* rows, same values, same column types) on every branch.
C23_ArgumentUnchanged ==
  Filtered => fres.arg = fin

\* An attempt of the retry loop can start.
AttemptCanStart == pc = "fetch" /\ attempt <= max_retries

\* C24: the delays between consecutive attempts of fetch_owid_pm25 strictly
\* increase with the attempt number (1 s after the first failure, 3 s after
\* the second), and attempt number k starts only after the k delays that
\* follow the failures before it.
C24_DelaysIncreaseBetweenAttempts ==
  /\ \A i \in 1..Len(slept) - 1 : slept[i] < slept[i + 1]
  /\ Len(slept) >= 1 => slept[1] = 1
  /\ Len(slept) >= 2 => slept[2] = 3
  /\ AttemptCanStart => Len(slept) = attempt

C24_Witness ==
  /\ pc = "load" /\ ~raw.none
  /\ attempt = 2 /\ slept = <<1, 3>>

\* C27: every failed attempt of fetch_owid_pm25, the last one included, is
\* followed by a delay of 1 + 2 * attempt seconds: there are as many delays
\* as failed attempts, and None is returned only after the 5 s delay that
\* follows the third failure.
C27_DelayAfterEveryFailure ==
  /\ Len(slept) = attempt
  /\ \A i \in 1..Len(slept) : slept[i] = 1 + 2 * (i - 1)
  /\ (Fetched /\ raw.none) => (attempt = max_retries + 1 /\ slept[attempt] = 5)

C27_Witness ==
  /\ Fetched /\ raw.none
  /\ slept = <<1, 3, 5>>

\* C28: a raw table with a recognizable value column, neither "Year" nor
\* "year", and fewer than three columns makes the positional year lookup of
\* prepare_owid_df raise, and load_data returns the fallback table with
\* is_sample = True.
C28_ShortTableGivesFallback ==
  (/\ Loaded /\ ~raw.none
   /\ find_value_column(raw.df.cols) # ""
   /\ ~HasCol(raw.df, "Year") /\ ~HasCol(raw.df, "year")
   /\ Len(raw.df.cols) < 3)
  => (prep.exc = "IndexError" /\ result.is_sample /\ result.df = sample_prepare_failed)

\* The cell of raw row i the year is read from, by name and then by position.
YearByRule(i) ==
  IF HasCol(raw.df, "Year") THEN Cell(raw.df, i, "Year")
  ELSE IF HasCol(raw.df, "year") THEN Cell(raw.df, i, "year")
  ELSE raw.df.rows[i][3]

\* The country of raw row i, by name and then by position.
CountryByRule(i) ==
  IF HasCol(raw.df, "Entity") \/ HasCol(raw.df, "entity") THEN CountrySource(i)
  ELSE astype_str_cell(raw.df.rows[i][1], raw.df.dtypes[1])

\* The code the two name tiers give to a country without a code.
ResolvedCode(c) ==
  LET m == map_cell(get_country_iso_mapping(registry), c)
  IN  IF IsoMissing(m) THEN name_to_iso(registry, c) ELSE m

\* C25: the country comes from "Entity", else "entity", else the first
\* column as text; the year from "Year", else "year", else the third column
\* (of a raw table that has one); the capitalised name wins over the
\* lower-case one; the code comes from "Code" only, and without that column
\* every row starts with a missing code whatever a "code" column holds.
C25_FieldResolutionOrder ==
  (RunsDone /\ find_value_column(raw.df.cols) # "" /\ Len(raw.df.cols) >= 3) =>
    /\ ~HasCol(raw.df, "Code") =>
         \A i \in 1..NRows(raw.df) : isna(Cell(WithIso(WithCountry(raw.df)), i, "iso_alpha"))
    /\ \A i \in 1..NRows(raw.df) :
         \E o \in {RowOut(i)} :
           (o.ok /\ NRows(o.df) = 1) =>
             /\ o.df.rows[1][1] = CountryByRule(i)
             /\ o.df.rows[1][3] = to_numeric_cell(YearByRule(i))
             /\ o.df.rows[1][2] =
                  IF HasCol(raw.df, "Code") /\ ~IsoMissing(Cell(raw.df, i, "Code"))
                  THEN astype_str_cell(Cell(raw.df, i, "Code"), "object")
                  ELSE ResolvedCode(CountryByRule(i))

C25_Witness ==
  /\ RunsDone /\ Prepared.ok
  /\ raw.df.cols = <<"entity", "Entity", "year", "Year", "code", "pm25">>
  /\ Prepared.df.rows = << <<Str("South Korea"), Str("KOR"), Num(2022), Flt(10, 0)>> >>

\* C26: every output row of prepare_owid_df comes from one raw row and has
\* that row's country, year and value; the rows kept stay in raw order; of
\* two equal raw rows either both are in the output or neither is.
C26_NoMergeNoInvention ==
  (RunsDone /\ Prepared.ok) =>
    \E outs \in {RowOuts} :
      \E kept \in {{i \in 1..Len(outs) : outs[i].df.rows # <<>>}} :
        /\ NRows(Prepared.df) = Cardinality(kept)
        /\ \E src \in [1..NRows(Prepared.df) -> kept] :
             /\ \A j, k \in 1..NRows(Prepared.df) : j < k => src[j] < src[k]
             /\ \A j \in 1..NRows(Prepared.df) :
                  /\ Prepared.df.rows[j][1] = CountryOf(src[j])
                  /\ Prepared.df.rows[j][3] = to_numeric_cell(YearSourceCell(src[j]))
                  /\ Prepared.df.rows[j][4] = to_numeric_cell(ValueSourceCell(src[j]))
        /\ \A i, j \in 1..NRows(raw.df) :
             raw.df.rows[i] = raw.df.rows[j] => (i \in kept <=> j \in kept)

\* The same (country, year) twice in the raw table and twice in the output.
C26_Witness ==
  /\ RunsDone /\ Prepared.ok
  /\ NRows(raw.df) = 2 /\ raw.df.rows[1] = raw.df.rows[2]
  /\ NRows(Prepared.df) = 2
  /\ Prepared.df.rows[1] = Prepared.df.rows[2]

\* C22: a run of the script made once the fetch entry is 3600 s old or
\* older fetches again, so no run ends with a fetch entry of that age.
C22_RefetchAfterWindow ==
  pc = "presented" => cache.age < ttl

\* C29: the risk assessment tool runs to its end for every combination of
\* inputs: the suggestions are produced and no exception is raised.
C29_RiskToolCompletes ==
  tool.name = "risk" => tool.suggestions.exc = ""

\* C30: in the alert tool, whenever the guide is not the "good" guide the
\* detailed recommendation is not the "keep the current state" message.
C30_GuideAndAdviceAgree ==
  tool.name = "alert" =>
    (tool.guide # "good" => tool.advice # "keep the current state")

=============================================================================
